---- MODULE Spec2Model ----
(***************************************************************************)
(* Model of fit_data.py: a single-process pipeline                         *)
(*   get_user_input -> read_data -> fit_data -> save_fit_params            *)
(*                  -> save_predictions -> plot_data.                      *)
(*                                                                         *)
(* Text is a sequence of one-character strings so that str.lower() and     *)
(* f-string concatenation are computed, not assumed.  float64 values are   *)
(* exact rationals <<numerator, denominator>>.  A spreadsheet cell and a   *)
(* DataFrame cell is a record [k, v, s]: kind, numeric value, text.        *)
(***************************************************************************)
EXTENDS Integers, Sequences, FiniteSets, TLC

(* ------------------------------ bounds -------------------------------- *)
MaxRows == 3        \* rows in the input spreadsheet
MaxAttempts == 3    \* lines the fit-option prompt reads in one run
MaxRuns == 2        \* consecutive runs of the program on the same disk

(* ------------------------------- text --------------------------------- *)
UpperCase == <<"A","B","C","D","E","F","G","H","I","J","K","L","M",
               "N","O","P","Q","R","S","T","U","V","W","X","Y","Z">>
LowerCase == <<"a","b","c","d","e","f","g","h","i","j","k","l","m",
               "n","o","p","q","r","s","t","u","v","w","x","y","z">>

LowerChar(c) ==
    IF \E i \in 1..26 : UpperCase[i] = c
    THEN LowerCase[CHOOSE i \in 1..26 : UpperCase[i] = c]
    ELSE c

\* str.lower()
Lower(s) == [i \in 1..Len(s) |-> LowerChar(s[i])] \o <<>>

LINEAR == <<"l","i","n","e","a","r">>
QUADRATIC == <<"q","u","a","d","r","a","t","i","c">>

\* the list ["linear", "quadratic"] of line 23
FitOptions == {LINEAR, QUADRATIC}

\* lines a user may type at the fit-option prompt
TypedLines ==
    { LINEAR,
      <<"L","i","n","e","a","r">>,
      <<"Q","U","A","D","R","A","T","I","C">>,
      <<"l","i","n","e","a","r"," ">>,
      <<"c","u","b","i","c">>,
      <<>> }

\* suffixes of the three output file names
PARAMS_SUFFIX == <<"_","f","i","t","_","p","a","r","a","m","e","t","e","r","s",".","c","s","v">>
PREDICTIONS_SUFFIX == <<"_","p","r","e","d","i","c","t","i","o","n","s",".","c","s","v">>
PLOT_SUFFIX == <<"_","f","i","t",".","p","n","g">>

(* ----------------------------- float64 -------------------------------- *)
Abs(n) == IF n < 0 THEN -n ELSE n

RECURSIVE Gcd(_, _)
Gcd(a, b) == IF b = 0 THEN a ELSE Gcd(b, a % b)

Norm(n, d) ==
    LET g == Gcd(Abs(n), Abs(d))
        sg == IF d < 0 THEN -1 ELSE 1
    IN  IF n = 0 THEN <<0, 1>> ELSE <<sg * (n \div g), sg * (d \div g)>>

R(n) == <<n, 1>>
\* sums and products cancel common factors before multiplying
RAdd(a, b) ==
    LET g == Gcd(a[2], b[2])
    IN  Norm(a[1] * (b[2] \div g) + b[1] * (a[2] \div g), (a[2] \div g) * b[2])
RMul(a, b) ==
    LET g1 == Gcd(Abs(a[1]), b[2])
        g2 == Gcd(Abs(b[1]), a[2])
    IN  IF a[1] = 0 \/ b[1] = 0 THEN <<0, 1>>
        ELSE <<(a[1] \div g1) * (b[1] \div g2), (a[2] \div g2) * (b[2] \div g1)>>
RInv(a) == IF a[1] < 0 THEN <<-a[2], -a[1]>> ELSE <<a[2], a[1]>>
RDiv(a, b) == RMul(a, RInv(b))

\* a sequence given by a rule, with every element worked out once
Tup(f) == f \o <<>>

RECURSIVE RPow(_, _)
RPow(a, p) == IF p = 0 THEN R(1) ELSE RMul(a, RPow(a, p - 1))

RECURSIVE RSum(_)
RSum(s) == IF s = <<>> THEN R(0) ELSE RAdd(s[1], RSum(Tail(s)))

\* celsius_to_fahrenheit: T * 9/5 + 32, evaluated left to right
celsius_to_fahrenheit_inverse(T) == RAdd(RDiv(RMul(T, R(5)), R(9)), R(32))
celsius_to_fahrenheit(T) == RAdd(RDiv(RMul(T, R(9)), R(5)), R(32))

(* ------------------------------ cells --------------------------------- *)
\* kinds: "blank" (empty spreadsheet cell), "nan", "datetime" and
\* "datetime64" (v = hours since 1970-01-01T00:00), "int", "float",
\* "str" (s = the text)
Cell(k, v, s) == [k |-> k, v |-> v, s |-> s]
Blank == Cell("blank", R(0), <<>>)
NaN == Cell("nan", R(0), <<>>)
DateTimeCell(h) == Cell("datetime", R(h), <<>>)
IntCell(n) == Cell("int", R(n), <<>>)
FloatCell(r) == Cell("float", r, <<>>)
StrCell(s) == Cell("str", R(0), s)

\* column names of line 32 and lines 65-66
TIME_STAMP == "Time-Stamp"
TEMPERATURE_C == "Temperature/°C"
TEMPERATURE_F == "Temperature/°F"
PREDICTION_C == "Prediction/°C"
PREDICTION_F == "Prediction/°F"
names == <<TIME_STAMP, TEMPERATURE_C, TEMPERATURE_F>>

\* rows a spreadsheet may hold, <<timestamp, Celsius, Fahrenheit>>: three
\* complete rows and one whose Celsius cell is text that is no number
MainRows ==
    { <<DateTimeCell(0),  IntCell(10), IntCell(50)>>,
      <<DateTimeCell(24), IntCell(12), IntCell(54)>>,
      <<DateTimeCell(48), StrCell(<<"1","8">>), IntCell(64)>>,
      <<DateTimeCell(12), StrCell(<<"a","b","c">>), IntCell(57)>> }

\* further rows for read_data alone: an empty Celsius cell, "N/A" as
\* Celsius, an empty Fahrenheit cell, a timestamp that is no date
SheetRows ==
    MainRows \cup
    { <<DateTimeCell(24), Blank, IntCell(50)>>,
      <<DateTimeCell(24), StrCell(<<"N","/","A">>), IntCell(50)>>,
      <<DateTimeCell(48), IntCell(12), Blank>>,
      <<StrCell(<<"a","b","c">>), IntCell(10), IntCell(50)>> }

SheetsOver(rows) == UNION { [1..n -> rows] : n \in 0..MaxRows }
Sheets == SheetsOver(SheetRows)

\* what is on disk at a path: nothing, a file that is no workbook, a workbook
NoFile == [kind |-> "missing", rows |-> <<>>]
NotAWorkbook == [kind |-> "corrupt", rows |-> <<>>]
Workbook(rows) == [kind |-> "xlsx", rows |-> rows]

(* ------------------------------ pandas -------------------------------- *)
DataFrame(columns, rows) == [columns |-> columns, rows |-> rows]
EmptyFrame == DataFrame(<<>>, <<>>)

Col(df, name) == CHOOSE i \in 1..Len(df.columns) : df.columns[i] = name
HasCol(df, name) == \E i \in 1..Len(df.columns) : df.columns[i] = name

\* strings pandas reads as a missing value (subset of its default list)
NA_VALUES == { <<"N","/","A">>, <<"N","A">>, <<"n","a","n">> }

\* pd.read_excel(..., header=None, names=[...]) on a parsable workbook
ReadExcelCell(c) ==
    IF c.k = "blank" \/ (c.k = "str" /\ c.s \in NA_VALUES) THEN NaN ELSE c
read_excel(rows) ==
    DataFrame(names,
              Tup([i \in 1..Len(rows) |->
                      Tup([j \in 1..3 |-> ReadExcelCell(rows[i][j])])]))

\* DataFrame.dropna(how='any', axis=0, ignore_index=True)
IsNull(c) == c.k = "nan"
KeepHowAll(row) == \E j \in 1..Len(row) : ~IsNull(row[j])
KeepHowAny(row) == \A j \in 1..Len(row) : ~IsNull(row[j])
dropna(df) == DataFrame(df.columns, SelectSeq(df.rows, KeepHowAny))

\* text of decimal digits to its value
Digits == <<"0","1","2","3","4","5","6","7","8","9">>
IsDigit(c) == \E i \in 1..10 : Digits[i] = c
DigitVal(c) == (CHOOSE i \in 1..10 : Digits[i] = c) - 1
IsNumericText(s) == Len(s) > 0 /\ \A i \in 1..Len(s) : IsDigit(s[i])
RECURSIVE ParseDigits(_, _)
ParseDigits(s, acc) ==
    IF s = <<>> THEN acc ELSE ParseDigits(Tail(s), 10 * acc + DigitVal(s[1]))

\* pd.to_numeric(..., errors='coerce') on one cell
to_numeric(c) ==
    CASE c.k \in {"int", "float"} -> FloatCell(c.v)
      [] c.k = "str" /\ IsNumericText(c.s) -> FloatCell(R(ParseDigits(c.s, 0)))
      [] OTHER -> NaN

\* data[pd.to_numeric(data['Temperature/°C'], errors='coerce').notnull()]
NumericFilter(df) ==
    LET j == Col(df, TEMPERATURE_C)
    IN  DataFrame(df.columns,
                  SelectSeq(df.rows, LAMBDA row : ~IsNull(to_numeric(row[j]))))

\* pd.to_datetime on one cell: a datetime becomes a datetime64 value, text
\* that is no date raises
DatetimeParses(c) == c.k \in {"datetime", "datetime64"}
to_datetime(c) == Cell("datetime64", c.v, <<>>)

\* Series.astype('float64') on a cell that passed the numeric filter
astype_float64(c) == to_numeric(c)

\* data[name] = <data[name] converted>; dtype "datetime64" or "float64"
SetCol(df, name, dtype) ==
    LET j == Col(df, name)
    IN  DataFrame(df.columns,
                  Tup([i \in 1..Len(df.rows) |->
                          Tup([k \in 1..Len(df.columns) |->
                                  IF k # j THEN df.rows[i][k]
                                  ELSE IF dtype = "datetime64"
                                  THEN to_datetime(df.rows[i][k])
                                  ELSE astype_float64(df.rows[i][k])])]))

AddCol(df, name, vals) ==
    DataFrame(Append(df.columns, name),
              Tup([i \in 1..Len(df.rows) |-> Append(df.rows[i], vals[i])]))

Column(df, name) == Tup([i \in 1..Len(df.rows) |-> df.rows[i][Col(df, name)]])

\* read_data(file_path): [error, data]; error = "" when it returns
read_data_result(file) ==
    IF file.kind = "missing" THEN [error |-> "FileNotFoundError", data |-> EmptyFrame]
    ELSE IF file.kind = "corrupt" THEN [error |-> "ValueError", data |-> EmptyFrame]
    ELSE
      LET loaded == read_excel(file.rows)
          nonull == dropna(loaded)
          numeric == NumericFilter(nonull)
          ts == Column(numeric, TIME_STAMP)
      IN  IF \E i \in 1..Len(ts) : ~DatetimeParses(ts[i])
          THEN [error |-> "DateParseError", data |-> EmptyFrame]
          ELSE [error |-> "",
                data |-> SetCol(SetCol(numeric, TIME_STAMP, "datetime64"),
                                TEMPERATURE_C, "float64")]

(* --------------------------- numpy, matplotlib ------------------------- *)
\* mdates.date2num: days since the epoch 1970-01-01T00:00, with fraction
date2num(c) == RDiv(c.v, R(24))

RECURSIVE Distinct(_)
Distinct(s) ==
    IF s = <<>> THEN <<>>
    ELSE LET r == Distinct(SubSeq(s, 1, Len(s) - 1))
             last == s[Len(s)]
         IN  IF \E i \in 1..Len(r) : r[i] = last THEN r ELSE Append(r, last)

Minor(M, j) ==
    Tup([i \in 1..(Len(M) - 1) |->
            Tup([k \in 1..(Len(M) - 1) |-> M[i + 1][IF k < j THEN k ELSE k + 1]])])

RECURSIVE Det(_)
Det(M) ==
    IF Len(M) = 1 THEN M[1][1]
    ELSE RSum(Tup([j \in 1..Len(M) |->
                      RMul(IF j % 2 = 1 THEN R(1) ELSE R(-1),
                           RMul(M[1][j], Det(Minor(M, j))))]))

\* solution of the square system M c = b
Solve(M, b) ==
    LET d == Det(M)
    IN  Tup([k \in 1..Len(M) |->
                RDiv(Det(Tup([i \in 1..Len(M) |->
                                 Tup([j \in 1..Len(M) |->
                                         IF j = k THEN b[i] ELSE M[i][j]])])),
                     d)])

\* squared norm of column k of vander(x, order): the square of polyfit's scale
ScaleSq(x, order, k) ==
    RSum(Tup([i \in 1..Len(x) |-> RPow(x[i], 2 * (order - k))]))

\* least-squares solution when vander(x, order) has full column rank
LstsqFullRank(x, y, order) ==
    Solve(Tup([j \in 1..order |->
                  Tup([k \in 1..order |->
                          RSum(Tup([i \in 1..Len(x) |->
                                       RPow(x[i], 2 * order - j - k)]))])]),
          Tup([j \in 1..order |->
                  RSum(Tup([i \in 1..Len(x) |->
                               RMul(RPow(x[i], order - j), y[i])]))]))

\* fewer distinct abscissae than coefficients: among the least-squares
\* solutions, lstsq returns the one of least norm in the scaled coordinates
LstsqRankDeficient(x, y, order) ==
    LET xd == Distinct(x)
        m == Len(xd)
        scale2 == Tup([k \in 1..order |-> ScaleSq(x, order, k)])
        ybar == Tup([i \in 1..m |->
                    LET sel == SelectSeq(Tup([j \in 1..Len(x) |-> j]),
                                         LAMBDA j : x[j] = xd[i])
                    IN  RDiv(RSum(Tup([j \in 1..Len(sel) |-> y[sel[j]]])),
                             R(Len(sel)))])
        B == Tup([i \in 1..m |-> Tup([k \in 1..order |-> RPow(xd[i], order - k)])])
        G == Tup([i \in 1..m |->
                 Tup([j \in 1..m |->
                     RSum(Tup([k \in 1..order |->
                              RDiv(RMul(B[i][k], B[j][k]), scale2[k])]))])])
        lam == Solve(G, ybar)
    IN  Tup([k \in 1..order |->
            RDiv(RSum(Tup([i \in 1..m |-> RMul(B[i][k], lam[i])])), scale2[k])])

polyfit_needs_order_points(x, y, deg) ==
    IF Len(x) < deg + 1 THEN [error |-> "TypeError", coef |-> <<>>]
    ELSE IF \A i \in 1..Len(x) : x[i] = R(0)
    THEN [error |-> "LinAlgError", coef |-> <<>>]
    ELSE [error |-> "", coef |-> LstsqFullRank(x, y, deg + 1)]

\* np.polyfit(x, y, deg): [error, coef], coef highest power first.
\* An empty x is rejected; when every x is 0 the scale of a non-constant
\* column is 0, lhs /= scale is NaN and lstsq fails to converge.
polyfit(x, y, deg) ==
    LET order == deg + 1
    IN  IF Len(x) = 0 THEN [error |-> "TypeError", coef |-> <<>>]
        ELSE IF \A i \in 1..Len(x) : x[i] = R(0)
        THEN [error |-> "LinAlgError", coef |-> <<>>]
        ELSE IF Len(Distinct(x)) >= order
        THEN [error |-> "", coef |-> LstsqFullRank(x, y, order)]
        ELSE [error |-> "", coef |-> LstsqRankDeficient(x, y, order)]

\* np.polyval(p, x): p[1]*x^(n-1) + ... + p[n]
polyval(p, x) == RSum(Tup([k \in 1..Len(p) |-> RMul(p[k], RPow(x, Len(p) - k))]))

(* ------------------------------ fit_data ------------------------------ *)
\* the if / elif / else of lines 53-62: degree and labels of a fit option,
\* deg = -1 standing for "raise NotImplementedError"
FitChoiceDefaultsToQuadratic(fit_option) ==
    IF fit_option = LINEAR THEN [deg |-> 1, params_labels |-> <<"a", "b">>]
    ELSE [deg |-> 2, params_labels |-> <<"a", "b", "c">>]
FitChoiceLabelsAscending(fit_option) ==
    IF fit_option = LINEAR THEN [deg |-> 1, params_labels |-> <<"b", "a">>]
    ELSE IF fit_option = QUADRATIC
    THEN [deg |-> 2, params_labels |-> <<"c", "b", "a">>]
    ELSE [deg |-> -1, params_labels |-> <<>>]
FitChoice(fit_option) ==
    IF fit_option = LINEAR THEN [deg |-> 1, params_labels |-> <<"a", "b">>]
    ELSE IF fit_option = QUADRATIC
    THEN [deg |-> 2, params_labels |-> <<"a", "b", "c">>]
    ELSE [deg |-> -1, params_labels |-> <<>>]

\* fit_data(data, fit_option): [error, data, params]; the frame passed in is
\* modified in place, so data is the caller's frame after the call
fit_data_result(data, fit_option) ==
    LET x == Column(data, TIME_STAMP)
        y == Tup([i \in 1..Len(data.rows) |-> data.rows[i][Col(data, TEMPERATURE_C)].v])
        x_num == Tup([i \in 1..Len(x) |-> date2num(x[i])])
        choice == FitChoice(fit_option)
        raise(e) == [error |-> e, data |-> data, params |-> EmptyFrame]
    IN  IF choice.deg < 0 THEN raise("NotImplementedError")
        ELSE
          LET fit == polyfit(x_num, y, choice.deg)
          IN  IF fit.error # "" THEN raise(fit.error)
              ELSE
                LET predC == Tup([i \in 1..Len(x_num) |->
                                     FloatCell(polyval(fit.coef, x_num[i]))])
                    withC == AddCol(data, PREDICTION_C, predC)
                    predF == Tup([i \in 1..Len(x_num) |->
                                     FloatCell(celsius_to_fahrenheit(
                                         withC.rows[i][Col(withC, PREDICTION_C)].v))])
                IN  [error |-> "",
                     data |-> AddCol(withC, PREDICTION_F, predF),
                     params |-> DataFrame(choice.params_labels,
                                   << Tup([k \in 1..Len(fit.coef) |->
                                              FloatCell(fit.coef[k])]) >>)]

(* ----------------------------- file system ---------------------------- *)
\* a path is its sequence of components
dirname(path) == SubSeq(path, 1, Len(path) - 1)

WorkbookPath == <<"d1", "data.xlsx">>
TypedPaths == { WorkbookPath, <<"gone.xlsx">> }
Dirs == { dirname(path) : path \in TypedPaths }

OutNames == { m \o suf : m \in FitOptions,
                         suf \in {PARAMS_SUFFIX, PREDICTIONS_SUFFIX, PLOT_SUFFIX} }

File(header, rows) == [exists |-> TRUE, header |-> header, rows |-> rows]
Absent == [exists |-> FALSE, header |-> <<>>, rows |-> <<>>]
Stale == File(<<"stale">>, <<>>)

\* DataFrame.to_csv(save_path, index=False): a header line, then one line per
\* row; a field keeps the value of its cell and loses the dtype
CsvField(c) == Cell("field", c.v, c.s)
CsvLines(df) ==
    Tup([i \in 1..Len(df.rows) |->
            Tup([j \in 1..Len(df.rows[i]) |-> CsvField(df.rows[i][j])])])
to_csv_no_header(df) == File(<<>>, CsvLines(df))
to_csv(df) == File(df.columns, CsvLines(df))

\* plt.savefig: the image of the two series drawn by plot_date
savefig(data) ==
    File(<<"png">>,
         Tup([i \in 1..Len(data.rows) |->
                 << data.rows[i][Col(data, TIME_STAMP)],
                    data.rows[i][Col(data, TEMPERATURE_C)],
                    data.rows[i][Col(data, PREDICTION_C)] >>]))

\* opening save_path for writing truncates what was there
WriteAppending(fs, dir, name, content) ==
    [fs EXCEPT ![dir][name] =
        IF fs[dir][name].exists
        THEN File(fs[dir][name].header \o content.header,
                  fs[dir][name].rows \o content.rows)
        ELSE content]
Write(fs, dir, name, content) == [fs EXCEPT ![dir][name] = content]

(* ------------------------------- state -------------------------------- *)
VARIABLES
    pc,          \* where main is: the call it is about to make, "done", "raised"
    run,         \* number of the current run of the program
    sheet,       \* what is stored at WorkbookPath
    files,       \* output files on disk: files[dir][name]
    typed,       \* last line read at the fit-option prompt
    attempts,    \* lines rejected so far by the fit-option prompt
    file_path, fit_option, data, params,     \* locals of main
    error,       \* the exception that ended the run, "" if none
    written,     \* <<dir, name>> of the files this run has written, in order
    prev         \* inputs and CSV files of the previous run

vars == <<pc, run, sheet, files, typed, attempts, file_path, fit_option,
          data, params, error, written, prev>>

Disk(path) == IF path = WorkbookPath THEN sheet ELSE NoFile

NoPrev == [file_path |-> <<>>, fit_option |-> <<>>,
           parameters |-> Absent, predictions |-> Absent]

\* the disk before the first run: outputs of an older linear fit lie in
\* every directory, no quadratic fit has been saved
OldFiles ==
    [d \in Dirs |->
        [n \in OutNames |->
            IF SubSeq(n, 1, Len(LINEAR)) = LINEAR THEN Stale ELSE Absent]]

Init ==
    /\ pc = "get_user_input"
    /\ run = 1
    /\ sheet \in {NotAWorkbook} \cup { Workbook(rows) : rows \in SheetsOver(MainRows) }
    /\ files = OldFiles
    /\ typed = <<>>
    /\ attempts = 0
    /\ file_path = <<>>
    /\ fit_option = <<>>
    /\ data = EmptyFrame
    /\ params = EmptyFrame
    /\ error = ""
    /\ written = <<>>
    /\ prev = NoPrev

\* main, lines 107-116: the call that follows each call
main_plot_first(stage) ==
    CASE stage = "get_user_input" -> "read_data"
      [] stage = "read_data" -> "fit_data"
      [] stage = "fit_data" -> "plot_data"
      [] stage = "plot_data" -> "save_fit_params"
      [] stage = "save_fit_params" -> "save_predictions"
      [] stage = "save_predictions" -> "done"
main(stage) ==
    CASE stage = "get_user_input" -> "read_data"
      [] stage = "read_data" -> "fit_data"
      [] stage = "fit_data" -> "save_fit_params"
      [] stage = "save_fit_params" -> "save_predictions"
      [] stage = "save_predictions" -> "plot_data"
      [] stage = "plot_data" -> "done"

\* an exception nobody catches ends the process
Raise(e) == /\ pc' = "raised"
            /\ error' = e

\* line 18: input() of the file path
GetFilePath ==
    /\ pc = "get_user_input"
    /\ \E path \in TypedPaths : file_path' = path
    /\ pc' = "fit_option_prompt"
    /\ UNCHANGED <<run, sheet, files, typed, attempts, fit_option, data, params,
                   error, written, prev>>

\* line 23
AcceptsLinearOnly(option) == option = LINEAR
Accepts(option) == option \in FitOptions

\* lines 21-28: one pass of the while loop, then the return when it breaks
PromptFitOption ==
    /\ pc = "fit_option_prompt"
    /\ attempts < MaxAttempts
    /\ \E line \in TypedLines :
          /\ typed' = line
          /\ fit_option' = Lower(line)
          /\ IF Accepts(Lower(line))
             THEN pc' = main("get_user_input") /\ attempts' = 0
             ELSE pc' = "fit_option_prompt" /\ attempts' = attempts + 1
    /\ UNCHANGED <<run, sheet, files, file_path, data, params, error, written, prev>>

ReadDataIgnoringFailure ==
    /\ pc = "read_data"
    /\ LET r == read_data_result(Disk(file_path))
       IN  /\ data' = r.data
           /\ pc' = main("read_data")
           /\ error' = error
    /\ UNCHANGED <<run, sheet, files, typed, attempts, file_path, fit_option,
                   params, written, prev>>
\* line 110, and a direct call of read_data that returns to its caller
ReadDataThen(after) ==
    /\ pc = "read_data"
    /\ LET r == read_data_result(Disk(file_path))
       IN  IF r.error # ""
           THEN Raise(r.error) /\ data' = data
           ELSE /\ data' = r.data
                /\ pc' = after
                /\ error' = error
    /\ UNCHANGED <<run, sheet, files, typed, attempts, file_path, fit_option,
                   params, written, prev>>
ReadData == ReadDataThen(main("read_data"))
CallReadData == ReadDataThen("returned")

\* line 112, and a direct call of fit_data that returns to its caller
FitDataThen(after) ==
    /\ pc = "fit_data"
    /\ LET r == fit_data_result(data, fit_option)
       IN  /\ data' = r.data
           /\ params' = r.params
           /\ IF r.error # "" THEN Raise(r.error)
              ELSE pc' = after /\ error' = error
    /\ UNCHANGED <<run, sheet, files, typed, attempts, file_path, fit_option,
                   written, prev>>
FitData == FitDataThen(main("fit_data"))
CallFitData == FitDataThen("returned")

\* a write to save_path either succeeds or raises OSError
SaveTo(stage, suffix, content) ==
    /\ pc = stage
    /\ \/ /\ files' = Write(files, dirname(file_path), fit_option \o suffix, content)
          /\ written' = Append(written, <<dirname(file_path), fit_option \o suffix>>)
          /\ pc' = main(stage)
          /\ error' = error
       \/ /\ Raise("OSError")
          /\ UNCHANGED <<files, written>>
    /\ UNCHANGED <<run, sheet, typed, attempts, file_path, fit_option, data,
                   params, prev>>

\* line 114
SaveFitParams == SaveTo("save_fit_params", PARAMS_SUFFIX, to_csv(params))
\* line 115
SavePredictions == SaveTo("save_predictions", PREDICTIONS_SUFFIX, to_csv(data))
\* line 116
PlotData == SaveTo("plot_data", PLOT_SUFFIX, savefig(data))

\* the program is started again after a run that completed
Restart ==
    /\ pc = "done"
    /\ run < MaxRuns
    /\ run' = run + 1
    /\ prev' = [file_path |-> file_path, fit_option |-> fit_option,
                parameters |-> files[dirname(file_path)][fit_option \o PARAMS_SUFFIX],
                predictions |-> files[dirname(file_path)][fit_option \o PREDICTIONS_SUFFIX]]
    /\ pc' = "get_user_input"
    /\ typed' = <<>>
    /\ attempts' = 0
    /\ file_path' = <<>>
    /\ fit_option' = <<>>
    /\ data' = EmptyFrame
    /\ params' = EmptyFrame
    /\ error' = ""
    /\ written' = <<>>
    /\ UNCHANGED <<sheet, files>>

Next ==
    \/ GetFilePath
    \/ PromptFitOption
    \/ ReadData
    \/ FitData
    \/ SaveFitParams
    \/ SavePredictions
    \/ PlotData
    \/ Restart

Spec == Init /\ [][Next]_vars

(* ----------------------- read_data called directly --------------------- *)
InitRead ==
    /\ pc = "read_data"
    /\ run = 1
    /\ sheet \in {NotAWorkbook} \cup { Workbook(rows) : rows \in Sheets }
    /\ files = [d \in Dirs |-> [n \in OutNames |-> Absent]]
    /\ typed = <<>>
    /\ attempts = 0
    /\ file_path \in TypedPaths
    /\ fit_option = <<>>
    /\ data = EmptyFrame
    /\ params = EmptyFrame
    /\ error = ""
    /\ written = <<>>
    /\ prev = NoPrev

NextRead == CallReadData

SpecRead == InitRead /\ [][NextRead]_vars

(* ----------------------- fit_data called directly ---------------------- *)
\* frames read_data can return
CleanFrames ==
    { read_data_result(Workbook(rows)).data :
        rows \in { r \in Sheets : read_data_result(Workbook(r)).error = "" } }

\* fit options a caller may pass
PassedOptions ==
    FitOptions \cup { <<"L","i","n","e","a","r">>, <<"c","u","b","i","c">>, <<>> }

InitFit ==
    /\ pc = "fit_data"
    /\ run = 1
    /\ sheet = NotAWorkbook
    /\ files = [d \in Dirs |-> [n \in OutNames |-> Absent]]
    /\ typed = <<>>
    /\ attempts = 0
    /\ file_path = WorkbookPath
    /\ fit_option \in PassedOptions
    /\ data \in CleanFrames
    /\ params = EmptyFrame
    /\ error = ""
    /\ written = <<>>
    /\ prev = NoPrev

NextFit == CallFitData

SpecFit == InitFit /\ [][NextFit]_vars

(* ------------------------------ properties ----------------------------- *)
\* C1: a line typed at the fit-option prompt is accepted exactly when its
\* lowercase form is "linear" or "quadratic" ("Linear" and "QUADRATIC" are
\* accepted), the mode returned is that lowercase form, every other line
\* leads back to the prompt, and no run goes on with another mode.
PromptStep == pc = "fit_option_prompt" /\ <<pc, attempts>>' # <<pc, attempts>>
C1_ModeValidation ==
    /\ [][PromptStep =>
            /\ (pc' = "read_data") <=> (Lower(typed') \in {LINEAR, QUADRATIC})
            /\ pc' = "read_data" => fit_option' = Lower(typed')
            /\ pc' # "read_data" =>
                  pc' = "fit_option_prompt" /\ attempts' = attempts + 1
            /\ typed' = <<"L","i","n","e","a","r">> =>
                  pc' = "read_data" /\ fit_option' = LINEAR
            /\ typed' = <<"Q","U","A","D","R","A","T","I","C">> =>
                  pc' = "read_data" /\ fit_option' = QUADRATIC]_vars
    /\ [](pc \notin {"get_user_input", "fit_option_prompt"} =>
            fit_option \in {LINEAR, QUADRATIC})
C1_Witness ==
    /\ pc = "read_data"
    /\ typed = <<"Q","U","A","D","R","A","T","I","C">>
    /\ fit_option = QUADRATIC

\* C2: the table read_data returns holds exactly the spreadsheet rows with no
\* missing cell in any of the three columns and a Celsius cell that is a
\* number or numeric text, in their original order.
CellMissing(c) == c.k = "blank" \/ (c.k = "str" /\ c.s \in NA_VALUES)
CellCoercible(c) == c.k \in {"int", "float"} \/ (c.k = "str" /\ IsNumericText(c.s))
RowRetained(row) == (\A j \in 1..3 : ~CellMissing(row[j])) /\ CellCoercible(row[2])
CellValue(c) == IF c.k = "str" THEN R(ParseDigits(c.s, 0)) ELSE c.v
C2_CleanedRows ==
    pc = "returned" =>
        LET kept == SelectSeq(sheet.rows, RowRetained)
        IN  /\ data.columns = <<TIME_STAMP, TEMPERATURE_C, TEMPERATURE_F>>
            /\ Len(data.rows) = Len(kept)
            /\ \A i \in 1..Len(kept) :
                  /\ data.rows[i][1].v = kept[i][1].v
                  /\ data.rows[i][2].v = CellValue(kept[i][2])
                  /\ data.rows[i][3] = kept[i][3]
C2_Witness ==
    /\ pc = "returned"
    /\ Len(sheet.rows) = 3
    /\ Len(data.rows) = 1
    /\ sheet.rows[1][2] = Blank
    /\ sheet.rows[2][2] = IntCell(12) /\ sheet.rows[2][3] = IntCell(54)
    /\ sheet.rows[3][2] = StrCell(<<"N","/","A">>)

\* C3: fit_data called with a fit option other than "linear" and "quadratic"
\* raises, returns no parameters and adds no prediction column.
C3_UnsupportedModeRaises ==
    (pc # "fit_data" /\ fit_option \notin {LINEAR, QUADRATIC}) =>
        /\ pc = "raised"
        /\ error = "NotImplementedError"
        /\ params = EmptyFrame
        /\ ~HasCol(data, PREDICTION_C)
        /\ ~HasCol(data, PREDICTION_F)
        /\ Len(data.columns) = 3
C3_Witness ==
    /\ pc = "raised"
    /\ fit_option = <<"c","u","b","i","c">>
    /\ Len(data.rows) = 3

\* C4: the parameters fit_data returns are degree+1 coefficients labelled
\* a, b (linear, prediction a*x + b) or a, b, c (quadratic, prediction
\* a*x^2 + b*x + c); the parameter file has these labels as its header and
\* one line of values.
XNum(i) == RDiv(data.rows[i][1].v, R(24))
Coef(k) == params.rows[1][k].v
C4_ParamsFile ==
    params # EmptyFrame =>
        /\ Len(params.rows) = 1
        /\ Len(params.rows[1]) = Len(params.columns)
        /\ fit_option \in {LINEAR, QUADRATIC}
        /\ fit_option = LINEAR =>
              /\ params.columns = <<"a", "b">>
              /\ \A i \in 1..Len(data.rows) :
                    data.rows[i][4].v = RAdd(RMul(Coef(1), XNum(i)), Coef(2))
        /\ fit_option = QUADRATIC =>
              /\ params.columns = <<"a", "b", "c">>
              /\ \A i \in 1..Len(data.rows) :
                    data.rows[i][4].v =
                        RAdd(RAdd(RMul(Coef(1), RMul(XNum(i), XNum(i))),
                                  RMul(Coef(2), XNum(i))),
                             Coef(3))
        /\ written # <<>> =>
              LET f == files[written[1][1]][written[1][2]]
              IN  /\ written[1][2] = fit_option \o PARAMS_SUFFIX
                  /\ f.exists
                  /\ f.header = params.columns
                  /\ Len(f.rows) = 1
                  /\ \A k \in 1..Len(params.columns) : f.rows[1][k].v = Coef(k)
C4_Witness ==
    /\ pc = "done"
    /\ fit_option = QUADRATIC
    /\ Len(data.rows) = 3
    /\ params.rows[1][1].v # R(0)

\* C5: in every row of the table fit_data produced, Prediction/°F is
\* Prediction/°C * 9/5 + 32, and Prediction/°C is the fitted polynomial at
\* the row's numeric time.
C5_Fahrenheit ==
    HasCol(data, PREDICTION_F) =>
        \A i \in 1..Len(data.rows) :
            LET C == data.rows[i][Col(data, PREDICTION_C)].v
                F == data.rows[i][Col(data, PREDICTION_F)].v
            IN  /\ F = RAdd(RDiv(RMul(C, R(9)), R(5)), R(32))
                /\ C = RSum([k \in 1..Len(params.columns) |->
                               RMul(Coef(k), RPow(XNum(i), Len(params.columns) - k))])
C5_Witness ==
    /\ HasCol(data, PREDICTION_F)
    /\ fit_option = LINEAR
    /\ Len(data.rows) = 3
    /\ data.rows[2][5].v # data.rows[1][5].v

\* C6: once a run has written its predictions file, the file has the header
\* Time-Stamp, Temperature/°C, Temperature/°F, Prediction/°C, Prediction/°F
\* and one line per row read_data retained, in order; the first three
\* columns of the table are those read_data returned.
C6_PredictionsFile ==
    Len(written) >= 2 =>
        LET retained == read_data_result(Disk(file_path)).data
            f == files[dirname(file_path)][fit_option \o PREDICTIONS_SUFFIX]
        IN  /\ f.exists
            /\ f.header = <<TIME_STAMP, TEMPERATURE_C, TEMPERATURE_F,
                            PREDICTION_C, PREDICTION_F>>
            /\ data.columns = f.header
            /\ Len(f.rows) = Len(retained.rows)
            /\ Len(data.rows) = Len(retained.rows)
            /\ \A i \in 1..Len(retained.rows) :
                  /\ Len(f.rows[i]) = 5
                  /\ SubSeq(data.rows[i], 1, 3) = retained.rows[i]
                  /\ \A j \in 1..5 :
                        /\ f.rows[i][j].v = data.rows[i][j].v
                        /\ f.rows[i][j].s = data.rows[i][j].s
C6_Witness ==
    /\ pc = "done"
    /\ Len(data.rows) = 2
    /\ Len(sheet.rows) = 3
    /\ data.rows[1][1].v # data.rows[2][1].v

\* C7: a run that completes on the same input path and the same mode as the
\* completed run before it leaves the parameter file and the predictions
\* file with the content they had after that run.
C7_Idempotent ==
    (pc = "done" /\ prev.file_path = file_path /\ prev.fit_option = fit_option) =>
        /\ files[dirname(file_path)][fit_option \o PARAMS_SUFFIX] = prev.parameters
        /\ files[dirname(file_path)][fit_option \o PREDICTIONS_SUFFIX] = prev.predictions
C7_Witness ==
    /\ pc = "done"
    /\ run = 2
    /\ prev.file_path = file_path
    /\ prev.fit_option = fit_option
    /\ Len(data.rows) = 3
    /\ prev.predictions.exists

\* C8 as stated: with fewer than 3 rows after cleaning (2, 1 or 0), a run in
\* quadratic mode is stopped by nothing but a failing write.
ReadReturned == data.columns # <<>>
C8_FewRowsNeverCrash ==
    (pc = "raised" /\ ReadReturned /\ fit_option = QUADRATIC /\ Len(data.rows) < 3) =>
        error = "OSError"

\* C8 amended: with 1 or 2 rows after cleaning, not all stamped with the
\* epoch of the numeric time, a run in quadratic mode is stopped by nothing
\* but a failing write, and a completed run has written its three files.
AllAtEpoch == \A i \in 1..Len(data.rows) : data.rows[i][1].v = R(0)
C8_OneOrTwoRows ==
    (ReadReturned /\ fit_option = QUADRATIC /\ Len(data.rows) \in {1, 2}
       /\ ~AllAtEpoch) =>
        /\ pc = "raised" => error = "OSError"
        /\ pc \in {"save_fit_params", "save_predictions", "plot_data", "done"} =>
              /\ Len(params.rows) = 1
              /\ HasCol(data, PREDICTION_C)
        /\ pc = "done" =>
              \A suf \in {PARAMS_SUFFIX, PREDICTIONS_SUFFIX, PLOT_SUFFIX} :
                  /\ files[dirname(file_path)][fit_option \o suf].exists
                  /\ files[dirname(file_path)][fit_option \o suf] # Stale
C8_Witness ==
    /\ pc = "done"
    /\ fit_option = QUADRATIC
    /\ Len(data.rows) = 1
    /\ files[dirname(file_path)][fit_option \o PREDICTIONS_SUFFIX].exists
    /\ Len(files[dirname(file_path)][fit_option \o PREDICTIONS_SUFFIX].rows) = 1

\* C9: when read_data fails, the run ends there: nothing is fitted, no
\* output file is written or changed, and a run that has ended does nothing
\* more.
C9_ReadFailureEndsRun ==
    [][ /\ (pc = "read_data" /\ read_data_result(Disk(file_path)).error # "") =>
              /\ pc' = "raised"
              /\ error' = read_data_result(Disk(file_path)).error
              /\ files' = files
              /\ written' = written
              /\ params' = EmptyFrame
              /\ data' = data
        /\ pc = "raised" => UNCHANGED <<pc, files, written, params, data>> ]_vars
C9_Witness ==
    /\ pc = "raised"
    /\ error \in {"FileNotFoundError", "ValueError", "DateParseError"}
    /\ run = 2
    /\ prev.parameters.exists
    /\ files[dirname(prev.file_path)][prev.fit_option \o PARAMS_SUFFIX] = prev.parameters

\* C10: a run writes the parameter file, then the predictions file, then the
\* plot image, all after fit_data returned; the files a failed run had
\* written stay in place; a run writes only files of its directory whose
\* names start with its mode.
OutputsOfRun ==
    << <<dirname(file_path), fit_option \o PARAMS_SUFFIX>>,
       <<dirname(file_path), fit_option \o PREDICTIONS_SUFFIX>>,
       <<dirname(file_path), fit_option \o PLOT_SUFFIX>> >>
StartsWith(name, prefix) ==
    Len(name) >= Len(prefix) /\ SubSeq(name, 1, Len(prefix)) = prefix
C10_OutputOrder ==
    /\ [](/\ Len(written) <= 3
          /\ written = SubSeq(OutputsOfRun, 1, Len(written))
          /\ written # <<>> => params # EmptyFrame /\ HasCol(data, PREDICTION_F)
          /\ (pc = "done") <=> (Len(written) = 3)
          /\ \A k \in 1..Len(written) :
                /\ StartsWith(written[k][2], fit_option)
                /\ files[written[k][1]][written[k][2]].exists
          /\ Len(written) >= 1 =>
                files[written[1][1]][written[1][2]].header = params.columns
          /\ Len(written) >= 2 =>
                files[written[2][1]][written[2][2]].header = data.columns)
    /\ [][\A d \in Dirs : \A n \in OutNames :
            files'[d][n] # files[d][n] =>
                /\ d = dirname(file_path)
                /\ StartsWith(n, fit_option)
                /\ written' = Append(written, <<d, n>>)]_vars
C10_Witness ==
    /\ pc = "raised"
    /\ error = "OSError"
    /\ Len(written) = 2
    /\ files[written[1][1]][written[1][2]].exists
    /\ files[written[2][1]][written[2][2]].exists
    /\ ~files[dirname(file_path)][fit_option \o PLOT_SUFFIX].exists

====
